---- MODULE Spec2Model ----
(***************************************************************************)
(* Model of server.py of icio-mcp: the validators, the require_valid_inputs *)
(* decorator, the four analytical tools under their two public names, and  *)
(* the per-call Postgres connection of _fetch_all.                         *)
(*                                                                         *)
(* A Python value is a tagged record; a Python str is a sequence of        *)
(* one-character strings, so that strip() and upper() are computed.        *)
(***************************************************************************)
EXTENDS Integers, Sequences, FiniteSets, TLC

VARIABLES refCountries, refSectors, request, inv, open, stmts

vars == <<refCountries, refSectors, request, inv, open, stmts>>

-----------------------------------------------------------------------------
(* Bounds of the model.                                                    *)

\* longest buyer_countries list a caller sends
MaxLen == 3
\* number of arguments of a call that differ from the well-formed call
MaxChanged == 2

-----------------------------------------------------------------------------
(* Python values.                                                          *)

Absent == [t |-> "absent"]
None == [t |-> "none"]
Other == [t |-> "other"]
PyStr(x) == [t |-> "str", v |-> x]
PyInt(n) == [t |-> "int", v |-> n]
PyList(l) == [t |-> "list", v |-> l]

IsInt(x) == x.t = "int"
IsList(x) == x.t = "list"

-----------------------------------------------------------------------------
(* Strings.                                                                *)

LowerLetters == {"a", "c", "d", "e", "f", "o", "r", "t", "u"}
UpperLetters == {"A", "C", "D", "E", "F", "O", "R", "T", "U", "X"}
Digits == {"1", "2", "6", "9"}
Whitespace == {" "}

UpperChar(c) ==
    CASE c = "a" -> "A" [] c = "c" -> "C" [] c = "d" -> "D" [] c = "e" -> "E"
      [] c = "f" -> "F" [] c = "o" -> "O" [] c = "r" -> "R" [] c = "t" -> "T"
      [] c = "u" -> "U" [] OTHER -> c

Upper(s) == [i \in 1..Len(s) |-> UpperChar(s[i])]

RECURSIVE LStrip(_)
LStrip(s) == IF s # <<>> /\ Head(s) \in Whitespace THEN LStrip(Tail(s)) ELSE s

RECURSIVE RStrip(_)
RStrip(s) ==
    IF s # <<>> /\ s[Len(s)] \in Whitespace THEN RStrip(SubSeq(s, 1, Len(s) - 1)) ELSE s

Strip(s) == RStrip(LStrip(s))

\* _norm_code: (x or "").strip().upper()
NormCode(x) == IF x.t = "str" THEN Upper(Strip(x.v)) ELSE <<>>

NormCountry(x) == NormCode(x)

NormSector(x) == NormCode(x)

\* ISO3_RE = ^[A-Z]{3}$
ISO3Match(c) == Len(c) = 3 /\ \A i \in 1..3 : c[i] \in UpperLetters

OUT == <<"O", "U", "T">>

-----------------------------------------------------------------------------
(* Validators without a data-store round trip.  A validator returns        *)
(* [err |-> "ok" or the error, ...].  Every validator raises ValueError;   *)
(* an error is named here by the place that raises it: InvalidFormat (the  *)
(* ISO3_RE checks), NotFound (the lookups), InvalidType, OutOfRange,       *)
(* RangeInverted and EmptyList.                                            *)

MinYear == 1995
MaxYear == 2100
LimitCap == 200

ValidateYear(y) ==
    IF ~IsInt(y) THEN "InvalidType"
    ELSE IF y.v < MinYear \/ y.v > MaxYear THEN "OutOfRange"
    ELSE "ok"

Min(a, b) == IF a < b THEN a ELSE b

ValidateLimit(n) ==
    IF ~IsInt(n) THEN [err |-> "InvalidType", val |-> n]
    ELSE IF n.v < 1 THEN [err |-> "OutOfRange", val |-> n]
    ELSE [err |-> "ok", val |-> PyInt(Min(n.v, LimitCap))]

RequireYear(y) == ValidateYear(y)

RequireLimit(n) == ValidateLimit(n)

\* the range check left out
RequireYearRangeNoOrder(year_from, year_to) ==
    IF RequireYear(year_from) # "ok" THEN [err |-> RequireYear(year_from), y1 |-> year_from, y2 |-> year_to]
    ELSE IF RequireYear(year_to) # "ok" THEN [err |-> RequireYear(year_to), y1 |-> year_from, y2 |-> year_to]
    ELSE [err |-> "ok", y1 |-> year_from, y2 |-> year_to]

RequireYearRange(year_from, year_to) ==
    IF RequireYear(year_from) # "ok" THEN [err |-> RequireYear(year_from), y1 |-> year_from, y2 |-> year_to]
    ELSE IF RequireYear(year_to) # "ok" THEN [err |-> RequireYear(year_to), y1 |-> year_from, y2 |-> year_to]
    ELSE IF year_from.v > year_to.v THEN [err |-> "RangeInverted", y1 |-> year_from, y2 |-> year_to]
    ELSE [err |-> "ok", y1 |-> year_from, y2 |-> year_to]

\* the second loop of _validate_country_list: de-dup while preserving order
RECURSIVE DedupFrom(_, _, _)
DedupFrom(out, seen, dedup) ==
    IF out = <<>> THEN dedup
    ELSE IF Head(out) \in seen THEN DedupFrom(Tail(out), seen, dedup)
    ELSE DedupFrom(Tail(out), seen \cup {Head(out)}, Append(dedup, Head(out)))

\* de-dup that keeps the last occurrence of a code instead of the first
RECURSIVE DedupKeepLast(_)
DedupKeepLast(out) ==
    IF out = <<>> THEN <<>>
    ELSE IF \E i \in 2..Len(out) : out[i] = Head(out) THEN DedupKeepLast(Tail(out))
    ELSE <<Head(out)>> \o DedupKeepLast(Tail(out))

Dedup(out) == DedupFrom(out, {}, <<>>)

-----------------------------------------------------------------------------
(* The tools: signatures, defaults and the decorator's rules.              *)

Ops == {"top_suppliers", "top_sectors", "compare_countries", "time_series"}

\* the two public names of a tool: product_dependency_* and its alias sector_dependency_*
Families == {"product", "sector"}

AllFields ==
    {"buyer_country", "buyer_sector", "supplier_country", "buyer_countries",
     "year", "limit", "year_from", "year_to"}

Sig(op) ==
    CASE op = "top_suppliers" -> <<"buyer_country", "buyer_sector", "year", "limit">>
      [] op = "top_sectors" -> <<"buyer_country", "supplier_country", "year", "limit">>
      [] op = "compare_countries" -> <<"buyer_countries", "buyer_sector", "supplier_country", "year">>
      [] op = "time_series" -> <<"buyer_country", "buyer_sector", "supplier_country", "year_from", "year_to">>

SigSet(op) == {Sig(op)[i] : i \in 1..Len(Sig(op))}

DefaultYear == 2022
DefaultLimit == 10
DefaultYearFrom == 2016
DefaultYearTo == 2022

Default(f) ==
    CASE f = "year" -> PyInt(DefaultYear)
      [] f = "limit" -> PyInt(DefaultLimit)
      [] f = "year_from" -> PyInt(DefaultYearFrom)
      [] f = "year_to" -> PyInt(DefaultYearTo)
      [] OTHER -> Absent

Rule(kind, field) == [kind |-> kind, field |-> field, field2 |-> field]

RangeRule(f_from, f_to) == [kind |-> "year_range", field |-> f_from, field2 |-> f_to]

\* require_valid_inputs runs its loops in this order whatever the order of its
\* keyword arguments: iso3, iso3 allow OUT, sectors, years, limits, lists, range
ProductRules(op) ==
    CASE op = "top_suppliers" ->
            <<Rule("iso3", "buyer_country"), Rule("sector", "buyer_sector"),
              Rule("year", "year"), Rule("limit", "limit")>>
      [] op = "top_sectors" ->
            <<Rule("iso3", "buyer_country"), Rule("iso3_out", "supplier_country"),
              Rule("year", "year"), Rule("limit", "limit")>>
      [] op = "compare_countries" ->
            <<Rule("iso3_out", "supplier_country"), Rule("sector", "buyer_sector"),
              Rule("year", "year"), Rule("iso3_list", "buyer_countries")>>
      [] op = "time_series" ->
            <<Rule("iso3", "buyer_country"), Rule("iso3_out", "supplier_country"),
              Rule("sector", "buyer_sector"), RangeRule("year_from", "year_to")>>

SectorRules(op) ==
    CASE op = "top_suppliers" ->
            <<Rule("iso3", "buyer_country"), Rule("sector", "buyer_sector"),
              Rule("year", "year"), Rule("limit", "limit")>>
      [] op = "top_sectors" ->
            <<Rule("iso3", "buyer_country"), Rule("iso3_out", "supplier_country"),
              Rule("year", "year"), Rule("limit", "limit")>>
      [] op = "compare_countries" ->
            <<Rule("iso3_out", "supplier_country"), Rule("sector", "buyer_sector"),
              Rule("year", "year"), Rule("iso3_list", "buyer_countries")>>
      [] op = "time_series" ->
            <<Rule("iso3", "buyer_country"), Rule("iso3_out", "supplier_country"),
              Rule("sector", "buyer_sector"), RangeRule("year_from", "year_to")>>

Rules(fam, op) == IF fam = "product" THEN ProductRules(op) ELSE SectorRules(op)

\* the fields a tool echoes in its result mapping
Echo(op) ==
    CASE op = "top_suppliers" -> {"year", "buyer_country", "buyer_sector"}
      [] op = "top_sectors" -> {"year", "buyer_country", "supplier_country"}
      [] op = "compare_countries" -> {"year", "buyer_sector", "supplier_country"}
      [] op = "time_series" -> {"buyer_country", "buyer_sector", "supplier_country"}

-----------------------------------------------------------------------------
(* One invocation: the frame of the running wrapper and its history.       *)

NoKw == [f \in AllFields |-> Absent]

NoStmt == [table |-> "none", code |-> <<>>, params |-> NoKw]

Pending == [kind |-> "pending"]

Idle ==
    [pc |-> "idle", fam |-> "none", op |-> "none", args |-> <<>>, kw |-> NoKw,
     idx |-> 0, li |-> 0, out |-> <<>>, got |-> "none", stmt |-> NoStmt,
     failed |-> FALSE, trace |-> <<>>, outcome |-> Pending]

\* a validator call that has ended, as it is seen from outside
VEvent(kind, field, inp, err, outv) ==
    [ev |-> "validate", kind |-> kind, field |-> field, inp |-> inp, err |-> err, outv |-> outv]

\* a call of _fetch_all
FEvent(stmt) == [ev |-> "fetch", table |-> stmt.table, code |-> stmt.code, params |-> stmt.params]

\* `f in kwargs and kwargs[f] is not None`
Present(kw, f) == kw[f] # Absent /\ kw[f] # None

\* an exception that is no validation error leaves the invocation; the frame is gone
Throw(s, err) ==
    [Idle EXCEPT !.pc = "done", !.op = s.op, !.trace = s.trace,
                 !.outcome = [kind |-> "error", err |-> err]]

\* the error is recorded and the wrapper goes on to the next rule
RaiseAndGoOn(s, e) ==
    [s EXCEPT !.trace = Append(@, e), !.idx = @ + 1, !.li = 0, !.out = <<>>, !.got = "none"]

\* a validator raises ValueError: it propagates out of _wrapped
Raise(s, e) ==
    [Idle EXCEPT !.pc = "done", !.op = s.op, !.trace = Append(s.trace, e),
                 !.outcome = [kind |-> "error", err |-> e.err]]

\* kwargs[f] = <validated value>, and on to the next rule
Accept(s, e, f, val) ==
    [s EXCEPT !.kw[f] = val, !.trace = Append(@, e), !.idx = @ + 1,
              !.li = 0, !.out = <<>>, !.got = "none"]

Skip(s) == [s EXCEPT !.idx = @ + 1]

\* _fetch_one / _fetch_all is called: the invocation goes for a connection
Fetch(s, table, code, params) ==
    LET stmt == [table |-> table, code |-> code, params |-> params]
    IN [s EXCEPT !.pc = "connect", !.stmt = stmt, !.trace = Append(@, FEvent(stmt))]

\* _validate_country up to its lookup
ValidateCountry(s, code, allow_out) ==
    LET c == NormCountry(PyStr(code))
    IN IF allow_out /\ c = OUT THEN [s EXCEPT !.got = "pass"]
       ELSE Fetch(s, "countries", c, NoKw)

\* _validate_sector up to its lookup
ValidateSector(s, code) == Fetch(s, "activities", NormSector(PyStr(code)), NoKw)

RequireIso3(s, f, allow_out) ==
    LET code == s.kw[f]
        c == NormCountry(code)
        ev(err) == VEvent(IF allow_out THEN "iso3_out" ELSE "iso3", f, <<code>>, err, <<PyStr(c)>>)
    IN IF s.got = "none"
       THEN IF allow_out /\ c = OUT THEN Accept(s, ev("ok"), f, PyStr(c))
            ELSE IF ~ISO3Match(c) THEN Raise(s, ev("InvalidFormat"))
            ELSE ValidateCountry(s, c, allow_out)
       ELSE IF s.got = "norow" THEN Raise(s, ev("NotFound"))
            ELSE Accept(s, ev("ok"), f, PyStr(c))

RequireSector(s, f) ==
    LET code == s.kw[f]
        sn == NormSector(code)
        ev(err) == VEvent("sector", f, <<code>>, err, <<PyStr(sn)>>)
    IN IF s.got = "none" THEN ValidateSector(s, sn)
       ELSE IF s.got = "norow" THEN Raise(s, ev("NotFound"))
            ELSE Accept(s, ev("ok"), f, PyStr(sn))

RequireYearField(s, f) ==
    LET y == s.kw[f]
        ev == VEvent("year", f, <<y>>, RequireYear(y), <<y>>)
    IN IF RequireYear(y) = "ok" THEN Accept(s, ev, f, y) ELSE Raise(s, ev)

RequireLimitField(s, f) ==
    LET n == s.kw[f]
        r == RequireLimit(n)
        ev == VEvent("limit", f, <<n>>, r.err, <<r.val>>)
    IN IF r.err = "ok" THEN Accept(s, ev, f, r.val) ELSE Raise(s, ev)

\* _require_iso3_list = _validate_country_list, one element of its first loop at a time
ValidateCountryList(s, f) ==
    LET codes == s.kw[f]
        ev(err, res) == VEvent("iso3_list", f, <<codes>>, err, <<res>>)
    IN IF ~IsList(codes) \/ (IsList(codes) /\ codes.v = <<>>) THEN Raise(s, ev("EmptyList", codes))
       ELSE IF s.li = 0 THEN [s EXCEPT !.li = 1, !.out = <<>>]
       ELSE IF s.li > Len(codes.v) THEN Accept(s, ev("ok", PyList(Dedup(s.out))), f, PyList(Dedup(s.out)))
       ELSE LET cc == NormCountry(PyStr(codes.v[s.li]))
            IN IF s.got = "none"
               THEN IF ~ISO3Match(cc) THEN Raise(s, ev("InvalidFormat", codes))
                    ELSE ValidateCountry(s, cc, FALSE)
               ELSE IF s.got = "norow" THEN Raise(s, ev("NotFound", codes))
                    ELSE [s EXCEPT !.out = Append(@, cc), !.li = @ + 1, !.got = "none"]

YearRange(s, f_from, f_to) ==
    IF s.kw[f_from] # Absent /\ s.kw[f_to] # Absent
    THEN LET r == RequireYearRange(s.kw[f_from], s.kw[f_to])
             ev == VEvent("year_range", f_from, <<s.kw[f_from], s.kw[f_to]>>, r.err, <<r.y1, r.y2>>)
         IN IF r.err = "ok"
            THEN [Accept(s, ev, f_from, r.y1) EXCEPT !.kw[f_to] = r.y2]
            ELSE Raise(s, ev)
    ELSE Skip(s)

\* Python binds positional arguments, then keywords, then the declared defaults
Bind(op, args, kw) ==
    [f \in AllFields |->
        IF f \notin SigSet(op) THEN Absent
        ELSE LET i == CHOOSE j \in 1..Len(Sig(op)) : Sig(op)[j] = f
             IN IF i <= Len(args) THEN args[i]
                ELSE IF kw[f] # Absent THEN kw[f]
                ELSE Default(f)]

Result(op, bound) == [f \in Echo(op) |-> bound[f]]

\* the body of product_dependency_*: one analytical query, then the shaped result
ToolBody(s, bound) ==
    IF s.got = "none" THEN Fetch(s, "view", <<>>, bound)
    ELSE [Idle EXCEPT !.pc = "done", !.op = s.op, !.trace = s.trace,
                      !.outcome = [kind |-> "ok", result |-> Result(s.op, bound)]]

\* the alias calling the primary with keyword arguments
AliasBodyKeywords(s, bound) ==
    [s EXCEPT !.fam = "product", !.args = <<>>, !.kw = bound, !.idx = 1]

\* the body of sector_dependency_*: the primary is called with positional arguments
AliasBody(s, bound) ==
    [s EXCEPT !.fam = "product", !.args = [i \in 1..Len(Sig(s.op)) |-> bound[Sig(s.op)[i]]],
              !.kw = NoKw, !.idx = 1]

\* `return fn(*args, **kwargs)`
CallFn(s) ==
    LET bound == Bind(s.op, s.args, s.kw)
    IN IF \E f \in SigSet(s.op) : bound[f] = Absent THEN Throw(s, "TypeError")
       ELSE IF s.fam = "sector" THEN AliasBody(s, bound)
       ELSE ToolBody(s, bound)

\* one step of _wrapped
Wrapped(s) ==
    IF s.idx > Len(Rules(s.fam, s.op)) THEN CallFn(s)
    ELSE LET r == Rules(s.fam, s.op)[s.idx]
         IN IF r.kind = "year_range" THEN YearRange(s, r.field, r.field2)
            ELSE IF ~Present(s.kw, r.field) THEN Skip(s)
            ELSE CASE r.kind = "iso3" -> RequireIso3(s, r.field, FALSE)
                   [] r.kind = "iso3_out" -> RequireIso3(s, r.field, TRUE)
                   [] r.kind = "sector" -> RequireSector(s, r.field)
                   [] r.kind = "year" -> RequireYearField(s, r.field)
                   [] r.kind = "limit" -> RequireLimitField(s, r.field)
                   [] r.kind = "iso3_list" -> ValidateCountryList(s, r.field)

\* the invocation runs until it needs a connection or ends
RECURSIVE Advance(_)
Advance(s) == IF s.pc = "run" THEN Advance(Wrapped(s)) ELSE s

-----------------------------------------------------------------------------
(* Reference data and the calls a client sends.                            *)

FRA == <<"F", "R", "A">>
DEU == <<"D", "E", "U">>
XXX == <<"X", "X", "X">>
C26 == <<"C", "2", "6">>
C99 == <<"C", "9", "9">>

\* contents of ocde_icio.countries and ocde_icio.activities
RefCountrySets == {{FRA, DEU}, {FRA, DEU, OUT}}
RefSectorSets == {{C26}}

ListElems == {<<"f", "r", "a">>, FRA, DEU, OUT, <<"F", "1">>}

Lists == UNION {[1..n -> ListElems] : n \in 0..MaxLen}

\* the well-formed call of a tool
BaseVal(f) ==
    CASE f = "buyer_country" -> PyStr(FRA)
      [] f = "buyer_sector" -> PyStr(C26)
      [] f = "supplier_country" -> PyStr(DEU)
      [] f = "buyer_countries" -> PyList(<<FRA, DEU>>)
      [] f = "year" -> PyInt(2022)
      [] f = "limit" -> PyInt(10)
      [] f = "year_from" -> PyInt(2016)
      [] f = "year_to" -> PyInt(2022)

\* what a caller may send instead
Alts(f) ==
    CASE f = "buyer_country" ->
            {Absent, None, PyStr(<<" ", "f", "r", "a">>), PyStr(XXX), PyStr(OUT), PyStr(<<"F", "1">>)}
      [] f = "buyer_sector" ->
            {Absent, None, PyStr(<<"c", "2", "6", " ">>), PyStr(C99), PyStr(<<"2", "6", "C">>)}
      [] f = "supplier_country" ->
            {Absent, None, PyStr(<<"o", "u", "t", " ">>), PyStr(XXX), PyStr(<<"D", "1">>)}
      [] f = "buyer_countries" ->
            {Absent, None, Other, PyList(<<>>), PyList(<<<<"f", "r", "a">>, FRA, <<"d", "e", "u">>>>),
             PyList(<<FRA, OUT>>), PyList(<<DEU, <<"F", "1">>>>)}
      [] f = "year" -> {Absent, None, Other, PyInt(1994), PyInt(2101)}
      [] f = "limit" -> {Absent, None, Other, PyInt(0), PyInt(1), PyInt(200), PyInt(201)}
      [] f = "year_from" -> {Absent, None, PyInt(1994), PyInt(2023), PyInt(2101)}
      [] f = "year_to" -> {Absent, None, PyInt(1994), PyInt(2016), PyInt(2101)}

\* the keyword arguments with at most n of them changed
KwOf(op, n) ==
    UNION {
        {[f \in AllFields |->
            IF f \in D THEN a[f] ELSE IF f \in SigSet(op) THEN BaseVal(f) ELSE Absent] :
         a \in {b \in [D -> UNION {Alts(f) : f \in D}] : \A f \in D : b[f] \in Alts(f)}} :
        D \in {E \in SUBSET SigSet(op) : Cardinality(E) <= n}}

Call(o, k, names) == [op |-> o, kw |-> k, names |-> names]

\* a call by one public name, any of its arguments changed
SingleCalls ==
    UNION {{Call(o, k, {p}) : k \in KwOf(o, MaxChanged), p \in Families} : o \in Ops}

\* compare_countries by one public name, with any list of codes
ListCalls ==
    {Call("compare_countries",
          [f \in AllFields |->
              IF f = "buyer_countries" THEN PyList(l)
              ELSE IF f \in SigSet("compare_countries") THEN BaseVal(f) ELSE Absent],
          {p}) : l \in Lists, p \in Families}

\* the same call by both public names at once
TwinCalls == UNION {{Call(o, k, Families) : k \in KwOf(o, MaxChanged - 1)} : o \in Ops}

Requests == SingleCalls \cup ListCalls \cup TwinCalls

NoRequest == [op |-> "none", kw |-> NoKw, names |-> {}]

-----------------------------------------------------------------------------
(* The state machine.  A client calls a tool by one of its public names,   *)
(* or by both at once with the same keyword arguments; the invocations     *)
(* interleave at the data-store round trips.                               *)

Init ==
    /\ refCountries \in RefCountrySets
    /\ refSectors \in RefSectorSets
    /\ request = NoRequest
    /\ inv = [p \in Families |-> Idle]
    /\ open = [p \in Families |-> 0]
    /\ stmts = [p \in Families |-> 0]

\* a client sends a call: a tool and its keyword arguments
Submit(r) ==
    /\ request = NoRequest
    /\ request' = r
    /\ UNCHANGED <<refCountries, refSectors, inv, open, stmts>>

\* the transport calls the decorated function of family p with the keyword arguments
Invoke(p) ==
    /\ p \in request.names
    /\ inv[p].pc = "idle"
    /\ inv' = [inv EXCEPT ![p] =
            Advance([Idle EXCEPT !.pc = "run", !.fam = p, !.op = request.op,
                                 !.kw = request.kw, !.idx = 1])]
    /\ UNCHANGED <<refCountries, refSectors, request, open, stmts>>

\* psycopg.connect(_pg_dsn(), ...) returns a connection
Connect(p) ==
    /\ inv[p].pc = "connect"
    /\ inv' = [inv EXCEPT ![p].pc = "execute"]
    /\ open' = [open EXCEPT ![p] = @ + 1]
    /\ stmts' = [stmts EXCEPT ![p] = 0]
    /\ UNCHANGED <<refCountries, refSectors, request>>

\* _pg_dsn() finds no PG_DSN, or psycopg.connect raises: no connection was opened
ConnectFail(p) ==
    /\ inv[p].pc = "connect"
    /\ \E err \in {"ConfigurationError", "QueryExecutionError"} :
            inv' = [inv EXCEPT ![p] = Throw(@, err)]
    /\ UNCHANGED <<refCountries, refSectors, request, open, stmts>>

\* what the statement of the invocation fetches
Rows(stmt) ==
    CASE stmt.table = "countries" -> IF stmt.code \in refCountries THEN "row" ELSE "norow"
      [] stmt.table = "activities" -> IF stmt.code \in refSectors THEN "row" ELSE "norow"
      [] OTHER -> "rows"

\* cur.execute(sql, params); cur.fetchall()
Execute(p) ==
    /\ inv[p].pc = "execute"
    /\ inv' = [inv EXCEPT ![p].pc = "close", ![p].got = Rows(inv[p].stmt)]
    /\ stmts' = [stmts EXCEPT ![p] = @ + 1]
    /\ UNCHANGED <<refCountries, refSectors, request, open>>

\* cur.execute raises
ExecuteFail(p) ==
    /\ inv[p].pc = "execute"
    /\ inv' = [inv EXCEPT ![p].pc = "close", ![p].failed = TRUE]
    /\ stmts' = [stmts EXCEPT ![p] = @ + 1]
    /\ UNCHANGED <<refCountries, refSectors, request, open>>

\* the connection closed only when the statement succeeded
CloseConnOnSuccess(n, failed) == IF failed THEN n ELSE n - 1

\* the number of open connections after the `with` block is left
CloseConn(n, failed) == n - 1

\* the exception of the statement propagates, or the caller of _fetch_all goes on
Leave(s) ==
    IF s.failed THEN Throw(s, "QueryExecutionError")
    ELSE Advance([s EXCEPT !.pc = "run"])

\* the `with psycopg.connect(...)` block is left, by return or by exception
Release(p) ==
    /\ inv[p].pc = "close"
    /\ open' = [open EXCEPT ![p] = CloseConn(@, inv[p].failed)]
    /\ inv' = [inv EXCEPT ![p] = Leave(inv[p])]
    /\ UNCHANGED <<refCountries, refSectors, request, stmts>>

Step(p) ==
    \/ Invoke(p)
    \/ Connect(p)
    \/ ConnectFail(p)
    \/ Execute(p)
    \/ ExecuteFail(p)
    \/ Release(p)

Next ==
    \/ request = NoRequest /\ \E r \in Requests : Submit(r)
    \/ \E p \in Families : Step(p)

Spec == Init /\ [][Next]_vars

-----------------------------------------------------------------------------
(* Properties.                                                             *)

Done(p) == inv[p].pc = "done"

Events(p) == {inv[p].trace[i] : i \in 1..Len(inv[p].trace)}

Validations(p) == {e \in Events(p) : e.ev = "validate"}

Fetches(p) == {e \in Events(p) : e.ev = "fetch"}

\* the analytical queries the invocation has issued
Queries(p) == {e \in Fetches(p) : e.table = "view"}

Elems(s) == {s[i] : i \in 1..Len(s)}

IsPrefix(s, t) == Len(s) <= Len(t) /\ SubSeq(t, 1, Len(s)) = s

DataStoreErrors == {"ConfigurationError", "QueryExecutionError"}

DataStoreFailed(p) ==
    inv[p].outcome.kind = "error" /\ inv[p].outcome.err \in DataStoreErrors

InYears(y) == IsInt(y) /\ MinYear <= y.v /\ y.v <= MaxYear

\* one letter followed by two digits
SectorMatch(c) ==
    Len(c) = 3 /\ c[1] \in UpperLetters /\ c[2] \in Digits /\ c[3] \in Digits

\* C1: a finished time_series call with both years supplied and year_from > year_to
\* has failed with RangeInverted and has issued no data-store round trip (stated for
\* the calls whose years are both in [1995, 2100] and whose codes are all valid, so
\* that no other error can come first).
C1_RangeInvertedBeforeDataStore ==
    \A p \in Families :
        (/\ Done(p)
         /\ request.op = "time_series"
         /\ InYears(request.kw["year_from"]) /\ InYears(request.kw["year_to"])
         /\ request.kw["year_from"].v > request.kw["year_to"].v
         /\ NormCountry(request.kw["buyer_country"]) \in refCountries
         /\ NormCountry(request.kw["supplier_country"]) \in refCountries
         /\ NormSector(request.kw["buyer_sector"]) \in refSectors
         /\ ~DataStoreFailed(p))
        => /\ inv[p].outcome = [kind |-> "error", err |-> "RangeInverted"]
           /\ Fetches(p) = {}

\* C2: a validation that fails is the last thing its invocation does: the invocation
\* has ended with that error, nothing was validated after it and no analytical query
\* was issued.
C2_FailFast ==
    \A p \in Families : \A i \in 1..Len(inv[p].trace) :
        (inv[p].trace[i].ev = "validate" /\ inv[p].trace[i].err # "ok")
        => /\ i = Len(inv[p].trace)
           /\ Done(p)
           /\ inv[p].outcome = [kind |-> "error", err |-> inv[p].trace[i].err]
           /\ Queries(p) = {}

\* top_suppliers(buyer_country="XXX", buyer_sector="C26") has ended with NotFound,
\* the supplied buyer_sector was not validated
C2_Witness ==
    \E p \in Families :
        /\ Done(p)
        /\ request.op = "top_suppliers"
        /\ request.kw["buyer_country"] = PyStr(XXX)
        /\ request.kw["buyer_sector"] = PyStr(C26)
        /\ inv[p].outcome = [kind |-> "error", err |-> "NotFound"]
        /\ \E e \in Validations(p) : e.field = "buyer_country" /\ e.err = "NotFound"
        /\ \A e \in Validations(p) : e.field # "buyer_sector"

\* C3: whatever the reference country set holds, OUT is rejected as buyer_country,
\* never returned in a validated buyer_countries list, and never bound as
\* buyer_country or among buyer_countries in an analytical query.
C3_SentinelOnlyOnSupplier ==
    \A p \in Families :
        /\ \A e \in Validations(p) :
              /\ (e.field = "buyer_country" /\ NormCountry(e.inp[1]) = OUT) => e.err # "ok"
              /\ (e.kind = "iso3_list" /\ e.err = "ok") => OUT \notin Elems(e.outv[1].v)
        /\ \A q \in Queries(p) :
              /\ q.params["buyer_country"] # PyStr(OUT)
              /\ IsList(q.params["buyer_countries"]) => OUT \notin Elems(q.params["buyer_countries"].v)

\* C4: a code that does not have the format of its kind fails with InvalidFormat,
\* and no lookup is issued for it.
C4_FormatBeforeLookup ==
    \A p \in Families :
        /\ \A e \in Fetches(p) :
              /\ e.table = "countries" => ISO3Match(e.code)
              /\ e.table = "activities" => SectorMatch(e.code)
        /\ \A e \in Validations(p) :
              /\ (e.kind = "sector" /\ ~SectorMatch(NormSector(e.inp[1]))) => e.err = "InvalidFormat"
              /\ (e.kind = "iso3" /\ ~ISO3Match(NormCountry(e.inp[1]))) => e.err = "InvalidFormat"
              /\ (e.kind = "iso3_out" /\ ~ISO3Match(NormCountry(e.inp[1]))
                    /\ NormCountry(e.inp[1]) # OUT) => e.err = "InvalidFormat"

\* C5 as stated: every integer pair a > b fails with RangeInverted, every pair
\* 1995 <= a <= b <= 2100 is returned unchanged.
C5_RangeInvertedForAll ==
    \A p \in Families : \A e \in Validations(p) :
        (e.kind = "year_range" /\ IsInt(e.inp[1]) /\ IsInt(e.inp[2]))
        => /\ e.inp[1].v > e.inp[2].v => e.err = "RangeInverted"
           /\ (InYears(e.inp[1]) /\ InYears(e.inp[2]) /\ e.inp[1].v <= e.inp[2].v)
                => (e.err = "ok" /\ e.outv = e.inp)

\* C5 amended: every integer pair a > b fails, with RangeInverted when both years
\* are in [1995, 2100] and with the range error of the first year outside it
\* otherwise; every pair 1995 <= a <= b <= 2100 is returned unchanged.
C5_RangeInvertedInRange ==
    \A p \in Families : \A e \in Validations(p) :
        (e.kind = "year_range" /\ IsInt(e.inp[1]) /\ IsInt(e.inp[2]))
        => /\ e.inp[1].v > e.inp[2].v => e.err # "ok"
           /\ (InYears(e.inp[1]) /\ InYears(e.inp[2]) /\ e.inp[1].v > e.inp[2].v)
                => e.err = "RangeInverted"
           /\ (~InYears(e.inp[1]) \/ ~InYears(e.inp[2])) => e.err = "OutOfRange"
           /\ (InYears(e.inp[1]) /\ InYears(e.inp[2]) /\ e.inp[1].v <= e.inp[2].v)
                => (e.err = "ok" /\ e.outv = e.inp)

\* the range (2023, 2022) was rejected as inverted
C5_Witness ==
    \E p \in Families : \E e \in Validations(p) :
        /\ e.kind = "year_range"
        /\ e.inp = <<PyInt(2023), PyInt(2022)>>
        /\ e.err = "RangeInverted"

\* C6: called with the same keyword arguments on the same reference data, an alias
\* and its primary run the same validators and issue the same statements in the same
\* order (the history of one is a prefix of the other's at every moment), and when
\* the data store has failed neither, they end with the same outcome and history.
C6_AliasSameAsPrimary ==
    /\ IsPrefix(inv["product"].trace, inv["sector"].trace)
          \/ IsPrefix(inv["sector"].trace, inv["product"].trace)
    /\ (Done("product") /\ Done("sector")
          /\ ~DataStoreFailed("product") /\ ~DataStoreFailed("sector"))
       => /\ inv["sector"].outcome = inv["product"].outcome
          /\ inv["sector"].trace = inv["product"].trace

\* both names of time_series have returned a result after validating and querying
C6_Witness ==
    /\ request.op = "time_series"
    /\ \A p \in Families :
          /\ Done(p)
          /\ inv[p].outcome.kind = "ok"
          /\ Queries(p) # {}
          /\ \E e \in Validations(p) : e.kind = "year_range" /\ e.err = "ok"

\* C7: validate_limit returns min(n, 200) for n >= 1 and fails for n < 1, and every
\* top_suppliers / top_sectors query is bound with a LIMIT in 1..200: min(n, 200)
\* when limit n is supplied, 10 when it is omitted.
C7_LimitClamped ==
    \A p \in Families :
        /\ \A e \in Validations(p) :
              (e.kind = "limit" /\ IsInt(e.inp[1]))
              => IF e.inp[1].v >= 1
                 THEN e.err = "ok" /\ e.outv[1] = PyInt(Min(e.inp[1].v, LimitCap))
                 ELSE e.err # "ok"
        /\ \A q \in Queries(p) :
              request.op \in {"top_suppliers", "top_sectors"}
              => /\ IsInt(q.params["limit"])
                 /\ q.params["limit"].v \in 1..LimitCap
                 /\ IsInt(request.kw["limit"])
                      => q.params["limit"].v = Min(request.kw["limit"].v, LimitCap)
                 /\ request.kw["limit"] = Absent => q.params["limit"].v = DefaultLimit

\* out holds each code of codes once, in the order of the first occurrences
FirstIndex(s, x) == CHOOSE i \in 1..Len(s) : s[i] = x /\ \A j \in 1..(i - 1) : s[j] # x

IsFirstOccurrenceDedup(codes, out) ==
    /\ Elems(out) = Elems(codes)
    /\ \A i, j \in 1..Len(out) : i < j =>
          /\ out[i] # out[j]
          /\ FirstIndex(codes, out[i]) < FirstIndex(codes, out[j])

\* C8: validate_country_list fails with EmptyList on an empty list or a non-list;
\* on a non-empty list whose normalized codes are all reference countries it returns
\* the normalized codes de-duplicated in first-occurrence order; and the query of
\* compare_countries binds the list the validator returned.
C8_DedupFirstOccurrence ==
    \A p \in Families :
        /\ \A e \in Validations(p) :
              e.kind = "iso3_list"
              => LET codes == e.inp[1]
                 IN /\ (~IsList(codes) \/ (IsList(codes) /\ codes.v = <<>>)) => e.err = "EmptyList"
                    /\ (/\ IsList(codes) /\ codes.v # <<>>
                        /\ \A c \in Elems(codes.v) : NormCountry(PyStr(c)) \in refCountries)
                       => /\ e.err = "ok"
                          /\ IsList(e.outv[1])
                          /\ IsFirstOccurrenceDedup(
                                [i \in 1..Len(codes.v) |-> NormCountry(PyStr(codes.v[i]))],
                                e.outv[1].v)
        /\ \A q \in Queries(p) :
              (request.op = "compare_countries" /\ IsList(request.kw["buyer_countries"]))
              => \E e \in Validations(p) :
                    /\ e.kind = "iso3_list" /\ e.err = "ok"
                    /\ e.inp[1] = request.kw["buyer_countries"]
                    /\ q.params["buyer_countries"] = e.outv[1]

\* ["fra", "FRA", "deu"] was validated to ["FRA", "DEU"] and bound into the query
C8_Witness ==
    \E p \in Families : \E e \in Validations(p) : \E q \in Queries(p) :
        /\ e.kind = "iso3_list"
        /\ e.inp[1] = PyList(<<<<"f", "r", "a">>, FRA, <<"d", "e", "u">>>>)
        /\ e.outv[1] = PyList(<<FRA, DEU>>)
        /\ q.params["buyer_countries"] = PyList(<<FRA, DEU>>)

\* C9: an invocation holds a connection exactly while it is inside a round trip,
\* never more than one; one statement is executed on it before it is released,
\* by success or by failure; an ended invocation holds none; and an invocation
\* that asks for a connection or holds one can always go on, whatever the others do.
C9_ScopedConnections ==
    \A p \in Families :
        /\ open[p] \in {0, 1}
        /\ open[p] = 1 <=> inv[p].pc \in {"execute", "close"}
        /\ inv[p].pc = "execute" => stmts[p] = 0
        /\ inv[p].pc = "close" => stmts[p] = 1
        /\ Done(p) => open[p] = 0
        /\ inv[p].pc \in {"connect", "execute"} => ENABLED (Connect(p) \/ Execute(p))

\* one invocation has ended on a failed statement and holds no connection, while
\* the other holds an open one
C9_Witness ==
    \E p, q \in Families :
        /\ p # q
        /\ Done(p)
        /\ inv[p].outcome = [kind |-> "error", err |-> "QueryExecutionError"]
        /\ stmts[p] = 1
        /\ open[p] = 0
        /\ open[q] = 1

\* what a validator lets through
ValidCountry(x) == x.t = "str" /\ NormCountry(x) = x.v /\ x.v \in refCountries

ValidSupplier(x) == x.t = "str" /\ NormCountry(x) = x.v /\ (x.v \in refCountries \/ x.v = OUT)

ValidSector(x) == x.t = "str" /\ NormSector(x) = x.v /\ x.v \in refSectors

ValidParam(f, x) ==
    CASE f = "buyer_country" -> ValidCountry(x)
      [] f = "supplier_country" -> ValidSupplier(x)
      [] f = "buyer_sector" -> ValidSector(x)
      [] f = "buyer_countries" -> IsList(x) /\ x.v # <<>> /\ Elems(x.v) \subseteq refCountries
      [] f = "limit" -> IsInt(x) /\ x.v \in 1..LimitCap
      [] OTHER -> InYears(x)

\* C10: every parameter bound into an analytical query has passed its validator,
\* also when optional arguments are omitted (stated for the calls that pass no None,
\* which the wrapper does not validate either).
C10_BoundParamsValidated ==
    \A p \in Families : \A q \in Queries(p) :
        (\A f \in AllFields : request.kw[f] # None) =>
        /\ \A f \in SigSet(request.op) : ValidParam(f, q.params[f])
        /\ request.op = "time_series" =>
              (/\ InYears(q.params["year_from"]) /\ InYears(q.params["year_to"])
               /\ q.params["year_from"].v <= q.params["year_to"].v)

====
